---- MODULE Spec2Model ----
(***************************************************************************)
(* Model of scripts/detect_live_stream.py: the dispatch loop of main(),    *)
(* and one session worker per spawned thread (stream_game, which opens the *)
(* feed with stream_game_lines, reads the stream, and may hand over to     *)
(* fallback_poll_game).  A step of a thread runs from the return of one    *)
(* blocking call (requests.get, popen_uci, the next line of the stream,    *)
(* fetch_game_export, engine.analyse) to the next one, and the steps of    *)
(* the threads interleave.                                                 *)
(*                                                                         *)
(* The rules engine (python-chess) is modelled on the fool's-mate move     *)
(* alphabet, for which legality and game end are tabulated in Legal and    *)
(* is_game_over.  A move string of a payload is modelled by the list of    *)
(* its tokens, i.e. by the value of moves.split().                         *)
(***************************************************************************)
EXTENDS Naturals, Integers, Sequences, FiniteSets

VARIABLES
    main_pc,          \* position of main(): "startup", "events", "exited"
                      \* (the event stream ended or raised), "crashed" (an
                      \* event made main raise)
    active,           \* list returned by get_active_game_ids(token)
    next_active,      \* index of the next element of the startup for-loop
    started_games,    \* the registry set of main()
    is_bot_account,   \* account.get("title") == "BOT"
    workers,          \* the threads started so far, in start order
    feeds_left,       \* feed deliveries (stream lines, fetches) still to come
    events_left,      \* deliveries of the global event stream still to come
    last_open,        \* the stream_game_lines call that returned in the last
                      \* step, if any
    last_feed,        \* what the last step read from a game feed or from the
                      \* engine, if anything
    \* scripts/detect_live_game_best_move.py, main():
    seen_positions,   \* the dict seen_positions, as a function on Keys
    queue,            \* the elements of analyzable_games the for-loop has
                      \* still to visit; empty while main is at line 148
    polls_left,       \* iterations of the while-loop still to come
    polled,           \* per key, the position of the entry visited last
    last_game         \* what the last step did with an entry, if anything

stream_vars == <<main_pc, active, next_active, started_games, is_bot_account,
                 workers, feeds_left, events_left, last_open, last_feed>>

monitor_vars == <<seen_positions, queue, polls_left, polled, last_game>>

vars == <<stream_vars, monitor_vars>>

----------------------------------------------------------------------------
(* Bounds of the explored inputs *)

MaxPlies   == 4     \* longest move list a payload carries
MaxUpdates == 2     \* feed deliveries (stream lines, export fetches) of a session
MaxEvents  == 2     \* deliveries of the global event stream
MaxShared  == 1     \* feed deliveries shared by the sessions of a dispatch run
MaxPolls   == 2     \* iterations of the polling loop of the monitor
MaxGames   == 2     \* longest list of games a poll of the monitor returns

(* Program constants *)

attempts == 12      \* default of stream_game_lines(attempts=12)

----------------------------------------------------------------------------
(* Values *)

None  == "<None>"           \* Python None for the name locals and response
NoKey == <<-1, "none">>     \* last_position_key = None

username == "alice"         \* the monitored user (args.username / account)

\* the game ids the gameStart events of the explored runs carry
GameIds == {"g1"}

\* the lists get_active_game_ids returns in the explored runs
ActiveLists == {<<>>, <<"g1">>, <<"g2">>, <<"g1", "g1">>}

UciMoves == {"f2f3", "e7e5", "g2g4", "d8h4"}

SeqsUpTo(S, n) == UNION {[1..k -> S] : k \in 0..n}

\* str.lower() on the strings that occur in the model
lower(s) ==
    CASE s = "Alice"   -> "alice"
      [] s = "ALICE"   -> "alice"
      [] s = "Bob"     -> "bob"
      [] s = "Unknown" -> "unknown"
      [] s = "Started" -> "started"
      [] s = "Mate"    -> "mate"
      [] OTHER         -> s

----------------------------------------------------------------------------
(* Rules engine: chess.Board on the move alphabet UciMoves *)

\* board.push_uci(m) succeeds on a board whose move_stack is stack
Legal(stack, m) ==
    CASE Len(stack) = 0 -> m \in {"f2f3", "g2g4"}
      [] Len(stack) = 1 -> m = "e7e5"
      [] Len(stack) = 2 -> m \in {"f2f3", "g2g4"} /\ m # stack[1]
      [] Len(stack) = 3 -> m = "d8h4"
      [] OTHER          -> FALSE

\* board.turn
turn(stack) == IF Len(stack) % 2 = 0 THEN "white" ELSE "black"

\* board.is_game_over(): white is checkmated after 1... Qh4#
is_game_over(stack) == Len(stack) = 4

\* board.reset() followed by push_uci of each move; the first illegal move
\* raises and leaves the board at the moves pushed before it
RECURSIVE push_all(_, _)
push_all(stack, moves) ==
    IF moves = <<>> THEN [board |-> stack, raised |-> FALSE]
    ELSE IF Legal(stack, Head(moves))
         THEN push_all(Append(stack, Head(moves)), Tail(moves))
         ELSE [board |-> stack, raised |-> TRUE]

replay(moves) == push_all(<<>>, moves)

\* the game the explored payloads report: 1. f3 e5 2. g4 Qh4#
GameLine == <<"f2f3", "e7e5", "g2g4", "d8h4">>

\* the move lists of the explored payloads: a prefix of the game, followed
\* by at most one more move of the alphabet
MoveLists ==
    {m \in SeqsUpTo(UciMoves, MaxPlies) :
        \A i \in 1..(Len(m) - 1) : m[i] = GameLine[i]}

position_key(stack) == <<Len(stack), turn(stack)>>

----------------------------------------------------------------------------
(* Payloads delivered by the external service *)

\* a player object of a gameFull event: not a dict, or a dict with name / id
NoPlayer == [dict |-> FALSE, name |-> "", id |-> ""]
Alice    == [dict |-> TRUE, name |-> "Alice", id |-> "alice"]
Bob      == [dict |-> TRUE, name |-> "", id |-> "bob"]

\* the (white, black) objects of the explored gameFull events
PlayerPairs ==
    {<<Alice, Bob>>, <<Bob, Alice>>, <<NoPlayer, Bob>>}

player_name(player) ==
    IF ~player.dict THEN "Unknown"
    ELSE IF player.name # "" THEN player.name
    ELSE IF player.id # "" THEN player.id
    ELSE "Unknown"

\* players[color] of an export payload: user.name and name, "" when absent
SideAlice == [user_name |-> "Alice", name |-> ""]
SideBob   == [user_name |-> "", name |-> "Bob"]
SideNone  == [user_name |-> "", name |-> ""]

\* the (white, black) sides of the explored export payloads
SidePairs ==
    {<<SideAlice, SideBob>>, <<SideBob, SideAlice>>, <<SideNone, SideBob>>}

from_color(side) ==
    IF side.user_name # "" THEN side.user_name
    ELSE IF side.name # "" THEN side.name
    ELSE "Unknown"

extract_names_from_export(payload) ==
    <<from_color(payload.players[1]), from_color(payload.players[2])>>

\* a line of the game stream.  kind "skip" stands for the lines the loop
\* passes over (blank, not JSON, not an object, no type, unknown type);
\* state = "missing" is a gameFull without state, "notdict" one whose state
\* is not an object.
StreamLines ==
    [kind : {"skip"}, why : {"blank", "notjson", "notdict", "notype", "othertype"},
     state : {"dict"}, moves : {<<>>}, players : {<<NoPlayer, NoPlayer>>}]
    \cup
    [kind : {"gameFull"}, why : {""}, state : {"dict"}, moves : MoveLists,
     players : PlayerPairs]
    \cup
    [kind : {"gameFull"}, why : {""}, state : {"missing", "notdict"}, moves : {<<>>},
     players : PlayerPairs]
    \cup
    [kind : {"gameState"}, why : {""}, state : {"dict"}, moves : MoveLists,
     players : {<<NoPlayer, NoPlayer>>}]

\* payload.get("status") of an export payload; NoStatus when absent
NoStatus == "<absent>"
Statuses == {"Started", "mate", NoStatus}

Exports ==
    [moves : MoveLists, players : SidePairs, status : Statuses]

\* the list engine.analyse returns: per entry "pv" (a non-empty path),
\* "emptypv" (an empty path) or "nopv" (no "pv" key)
Infos == {<<>>, <<"nopv">>, <<"emptypv">>, <<"pv", "pv">>}

\* the result of one endpoint request: HTTP 200, another status, a raise
Outcomes == {"200", "401", "error"}

----------------------------------------------------------------------------
(* Pure functions of the program *)

\* a variant of endpoints that prefers the wrong candidate
endpoints_reversed(is_bot) ==
    IF is_bot THEN <<"board", "bot">> ELSE <<"bot", "board">>

\* stream_game_lines: the candidate list
endpoints(is_bot) ==
    IF is_bot THEN <<"bot", "board">> ELSE <<"board", "bot">>

\* a variant of sleeps_after that sleeps after every pass
sleeps_after_every(attempt) == TRUE

\* stream_game_lines: time.sleep follows pass attempt (line 140)
sleeps_after(attempt) == attempt < attempts

\* an entry of the call log of stream_game_lines
Get(endpoint, outcome) == [op |-> "get", endpoint |-> endpoint, outcome |-> outcome]
Sleep == [op |-> "sleep", endpoint |-> "", outcome |-> ""]

\* the locals of a stream_game_lines call before its first request: the pass
\* (attempt), the index of the candidate of the current request
\* (endpoint_name), the causes of the failed requests of the pass, and the
\* requests and sleeps made so far
NoRequests ==
    [attempt |-> 1, candidate |-> 1, last_failures |-> <<>>, log |-> <<>>]

\* stream_game_lines, lines 121-124 and 143: the for-loop goes on to the pass
\* after sgl.attempt, which starts with last_failures emptied, or is over,
\* and the call returns the failures of the last pass
sgl_next_pass(sgl) ==
    IF sgl.attempt < attempts
    THEN [returned |-> FALSE, at |-> "get", response |-> None,
          failure |-> <<>>, log |-> sgl.log,
          sgl |-> [sgl EXCEPT !.attempt = @ + 1, !.candidate = 1,
                              !.last_failures = <<>>]]
    ELSE [returned |-> TRUE, at |-> "", response |-> None,
          failure |-> sgl.last_failures, log |-> sgl.log, sgl |-> NoRequests]

\* stream_game_lines, lines 125-141, from the return of one requests.get to
\* the next blocking call: the request of candidate sgl.candidate of pass
\* sgl.attempt is answered with outcome.  returned tells that the call is
\* over, with the response and the failure list it returns; otherwise at is
\* the call the thread waits in next, the request of the next candidate or,
\* when the pass is over, the sleep of line 141, during which the locals are
\* still those of the pass
sgl_request(is_bot, sgl, outcome) ==
    LET name     == endpoints(is_bot)[sgl.candidate]
        logged   == Append(sgl.log, Get(name, outcome))
        failures == Append(sgl.last_failures,
                           [endpoint |-> name, cause |-> outcome])
    IN  IF outcome = "200"
        THEN [returned |-> TRUE, at |-> "", response |-> name,
              failure |-> <<>>, log |-> logged, sgl |-> NoRequests]
        ELSE IF sgl.candidate < Len(endpoints(is_bot))
        THEN [returned |-> FALSE, at |-> "get", response |-> None,
              failure |-> <<>>, log |-> logged,
              sgl |-> [sgl EXCEPT !.candidate = @ + 1,
                                  !.last_failures = failures,
                                  !.log = logged]]
        ELSE IF sleeps_after(sgl.attempt)
        THEN [returned |-> FALSE, at |-> "sleep", response |-> None,
              failure |-> <<>>, log |-> Append(logged, Sleep),
              sgl |-> [sgl EXCEPT !.last_failures = failures,
                                  !.log = Append(logged, Sleep)]]
        ELSE sgl_next_pass([sgl EXCEPT !.last_failures = failures,
                                       !.log = logged])

\* not x, for a name local
falsy(x) == x = None \/ x = ""

\* a variant of no_engine_move that trusts the answer of the engine
no_engine_move_never(info) == FALSE

\* analyse_and_print_position, line 191:
\* not info or "pv" not in info[0] or not info[0]["pv"]
no_engine_move(info) == info = <<>> \/ info[1] # "pv"

\* a variant of analyse_and_print_position that takes the monitored user to
\* play the other colour
analyse_and_print_position_swapped(board, user, white, black, info) ==
    IF falsy(white) \/ falsy(black) THEN [print |-> "none", engine |-> FALSE]
    ELSE
      LET is_white   == lower(white) = lower(user)
          user_color == IF is_white THEN "black" ELSE "white"
      IN  IF turn(board) = user_color
          THEN IF is_game_over(board)
               THEN [print |-> "gameover", engine |-> FALSE]
               ELSE IF no_engine_move(info)
                    THEN [print |-> "nomove", engine |-> TRUE]
                    ELSE [print |-> "yourturn", engine |-> TRUE]
          ELSE [print |-> "waiting", engine |-> FALSE]

\* analyse_and_print_position: what is printed ("none" when it returns at
\* once), and whether engine.analyse was called
analyse_and_print_position(board, user, white, black, info) ==
    IF falsy(white) \/ falsy(black) THEN [print |-> "none", engine |-> FALSE]
    ELSE
      LET is_white   == lower(white) = lower(user)
          user_color == IF is_white THEN "white" ELSE "black"
      IN  IF turn(board) = user_color
          THEN IF is_game_over(board)
               THEN [print |-> "gameover", engine |-> FALSE]
               ELSE IF no_engine_move(info)
                    THEN [print |-> "nomove", engine |-> TRUE]
                    ELSE [print |-> "yourturn", engine |-> TRUE]
          ELSE [print |-> "waiting", engine |-> FALSE]

\* a variant of is_new_position without the comparison
is_new_position_always(key, last_position_key) == TRUE

\* stream_game / fallback_poll_game: the position is a new one
is_new_position(key, last_position_key) == key # last_position_key

\* a variant of polls_after_stream that never polls
polls_after_stream_never(is_bot) == FALSE

\* stream_game: export polling follows the stream
polls_after_stream(is_bot) == ~is_bot

\* fallback_poll_game: the snapshot ends the polling loop
ends_polling(status) ==
    status # NoStatus /\ lower(status) \notin {"started", "created"}

\* main: a gameStart event for game_id starts a thread
is_unseen(game_id, started) == game_id \notin started

----------------------------------------------------------------------------
(* Session workers *)

\* the locals of a thread running stream_game(game_id, ...), at its start.
\* pc is the loop the thread is in ("open": stream_game_lines, "streaming":
\* lines 288-335, "polling": fallback_poll_game, "done": returned, "dead":
\* ended by an uncaught raise) and at the blocking call it is waiting in:
\* "get" (requests.get), "sleep" (the sleep of line 141), "popen"
\* (popen_uci), "line"
\* (the next line of the stream), "fetch" (fetch_game_export or the sleep
\* before it), "analyse" (engine.analyse).  sgl holds the locals of the
\* stream_game_lines call.  board, white, black and last_position_key are
\* the locals of stream_game while pc is "open" or "streaming" and those of
\* fallback_poll_game while pc is "polling"; status is payload.get("status")
\* of the snapshot a polling thread is handling.  out lists the
\* analyse_and_print_position calls that printed, failure is the list of
\* the "Could not open game stream" report, failed counts those reports,
\* polls the calls of fallback_poll_game, and run the latest updates of the
\* current feed that replayed to the key of board (0 before the first
\* update of the feed).
NewWorker(game_id) ==
    [ game_id |-> game_id, pc |-> "open", at |-> "get", sgl |-> NoRequests,
      response |-> None,
      board |-> <<>>, white |-> None, black |-> None,
      last_position_key |-> NoKey, status |-> "",
      out |-> <<>>, failure |-> <<>>, failed |-> 0, polls |-> 0, run |-> 0 ]

\* values of last_open: the last step ended no call; calls are not recorded
NoCall == [worker |-> 0, log |-> <<>>]
Off    == [worker |-> -1, log |-> <<>>]

\* the next value of last_open in a run that records calls
Recorded(call) == IF last_open = Off THEN Off ELSE call

\* the inputs of the explored dispatch runs (those that do not record
\* calls), where the sessions share MaxShared feed deliveries: a move list
\* has at most MaxShared plies and is a prefix of the game or the rejected
\* move e7e5; a gameFull line has the monitored user as black and an
\* export payload has them as white; a line that is passed over is a blank
\* one, and an export payload carries a status; a failed request is
\* answered HTTP 401; the engine answers with two paths or with nothing
DispatchMoves ==
    {m \in MoveLists :
        /\ Len(m) <= MaxShared
        /\ replay(m).raised => m = <<"e7e5">>}
DispatchLines ==
    {line \in StreamLines :
        /\ line.moves \in DispatchMoves
        /\ line.kind = "skip" => line.why = "blank"
        /\ line.kind = "gameFull" => line.players = <<Bob, Alice>>}
DispatchExports ==
    {payload \in Exports :
        /\ payload.moves \in DispatchMoves
        /\ payload.status # NoStatus
        /\ payload.players = <<SideAlice, SideBob>>}
DispatchOutcomes == {"200", "401"}
DispatchInfos == {<<>>, <<"pv", "pv">>}

\* what a game stream / an export fetch / a stream request / the engine may
\* deliver in the current run
FeedLines    == IF last_open = Off THEN DispatchLines ELSE StreamLines
FeedExports  == IF last_open = Off THEN DispatchExports ELSE Exports
FeedOutcomes == IF last_open = Off THEN DispatchOutcomes ELSE Outcomes
FeedInfos    == IF last_open = Off THEN DispatchInfos ELSE Infos

\* in the explored runs an endpoint that failed a request of the call fails
\* the later ones the same way, until it answers HTTP 200
Repeats(log, name, outcome) ==
    \/ outcome = "200"
    \/ \A k \in 1..Len(log) :
          (log[k].op = "get" /\ log[k].endpoint = name)
             => log[k].outcome = outcome

\* the answer of the engine holds no continuation: it is empty, or its
\* first entry has no path or an empty one
ZeroContinuations(info) == info = <<>> \/ info[1] \in {"nopv", "emptypv"}

\* values of last_feed.  kind is "none" (the step read nothing), the kind of
\* the stream line, "export", "fetcherror", or "engine" (the step read the
\* answer of engine.analyse); shape is the state of a gameFull line, and
\* "nomoves" for an export payload without moves; illegal tells that the
\* replay of the moves raised; status is that of an export payload; zero
\* tells that the answer of the engine held no continuation
NoFeed == [worker |-> 0, kind |-> "none", shape |-> "", illegal |-> FALSE,
           status |-> "", zero |-> FALSE]

\* for line in line_iter of thread w
StreamFeed(w, line) ==
    [worker |-> w, kind |-> line.kind,
     shape |-> IF line.kind = "gameFull" THEN line.state ELSE "",
     illegal |-> line.kind # "skip" /\ replay(line.moves).raised,
     status |-> "", zero |-> FALSE]

\* payload = fetch_game_export(...) of thread w
PollFeed(w, payload) ==
    [worker |-> w, kind |-> "export",
     shape |-> IF payload.moves = <<>> THEN "nomoves" ELSE "",
     illegal |-> replay(payload.moves).raised,
     status |-> payload.status, zero |-> FALSE]

\* fetch_game_export(...) of thread w raised
FetchError(w) == [NoFeed EXCEPT !.worker = w, !.kind = "fetcherror"]

\* info = engine.analyse(...) of thread w
EngineFeed(w, info) ==
    [NoFeed EXCEPT !.worker = w, !.kind = "engine",
                   !.zero = ZeroContinuations(info)]

\* the process runs and thread w exists
Alive(w) == main_pc \in {"startup", "events"} /\ w \in 1..Len(workers)

\* an update was replayed to brd: the board local and the run count
Replayed(wk, brd) ==
    [wk EXCEPT !.board = brd,
               !.run = IF @ >= 1 /\ position_key(brd) = position_key(wk.board)
                       THEN @ + 1 ELSE 1]

\* the common tail of both loops: the key test and the call of
\* analyse_and_print_position on the locals brd, white, black, up to its
\* return or to its call of engine.analyse (line 185), where the thread
\* waits for the engine with the key stored and nothing printed
Accept(wk, brd, white, black) ==
    LET key == position_key(brd)
        res == analyse_and_print_position(brd, username, white, black, <<>>)
        nw  == [Replayed(wk, brd) EXCEPT !.white = white, !.black = black]
    IN  IF is_new_position(key, wk.last_position_key)
        THEN IF res.engine
             THEN [nw EXCEPT !.last_position_key = key, !.at = "analyse"]
             ELSE [nw EXCEPT !.last_position_key = key,
                             !.out = IF res.print = "none" THEN @
                                     ELSE Append(@, [print |-> res.print,
                                                     engine |-> res.engine,
                                                     key |-> key])]
        ELSE nw

\* analyse_and_print_position from the return of engine.analyse with info
\* to its own return (lines 191-217)
Analysed(wk, info) ==
    LET res == analyse_and_print_position(wk.board, username, wk.white,
                                          wk.black, info)
    IN  [wk EXCEPT !.out = Append(@, [print |-> res.print,
                                      engine |-> res.engine,
                                      key |-> position_key(wk.board)])]

\* fallback_poll_game is entered: its locals are fresh, and it starts its
\* engine (line 233)
EnterPolling(wk) ==
    [wk EXCEPT !.pc = "polling", !.at = "popen", !.response = None,
               !.board = <<>>, !.white = None, !.black = None,
               !.last_position_key = NoKey, !.polls = @ + 1, !.run = 0]

\* the end of stream_game once the stream loop is left (lines 337-341)
AfterStream(wk) ==
    IF polls_after_stream(is_bot_account) THEN EnterPolling(wk)
    ELSE [wk EXCEPT !.pc = "done", !.at = "", !.response = None]

\* a variant of SetLocals for locals that all threads share
SetLocals_shared(w, wk) == [v \in DOMAIN workers |-> wk]

\* the threads once thread w has stepped to wk: board, white, black and
\* last_position_key are locals of the call thread w runs, and a raise or a
\* return of that call ends thread w alone
SetLocals(w, wk) == [workers EXCEPT ![w] = wk]

\* stream_game once a step of its stream_game_lines call has given r: the
\* call goes on, or it has returned and stream_game goes on to line 288 with
\* the response, or reports the failure and returns (lines 270-286)
Opened(wk, r) ==
    IF ~r.returned
    THEN [wk EXCEPT !.at = r.at, !.sgl = r.sgl]
    ELSE IF r.response = None
    THEN [wk EXCEPT !.pc = "done", !.at = "", !.sgl = r.sgl,
                    !.failure = r.failure, !.failed = @ + 1]
    ELSE [wk EXCEPT !.pc = "streaming", !.at = "popen",
                    !.sgl = r.sgl, !.response = r.response]

\* stream_game_lines: one requests.get is answered (lines 125-138)
OpenRequest(w) ==
    /\ Alive(w)
    /\ workers[w].pc = "open"
    /\ workers[w].at = "get"
    /\ \E outcome \in FeedOutcomes :
         LET wk   == workers[w]
             name == endpoints(is_bot_account)[wk.sgl.candidate]
             r    == sgl_request(is_bot_account, wk.sgl, outcome)
         IN  /\ Repeats(wk.sgl.log, name, outcome)
             /\ workers' = SetLocals(w, Opened(wk, r))
             /\ last_open' = Recorded(IF r.returned
                                      THEN [worker |-> w, log |-> r.log]
                                      ELSE NoCall)
    /\ last_feed' = NoFeed
    /\ UNCHANGED monitor_vars
    /\ UNCHANGED <<main_pc, active, next_active, started_games, is_bot_account,
                   feeds_left, events_left>>

\* stream_game_lines: time.sleep(delay_seconds) returns (line 141) and the
\* for-loop goes on to the next pass
OpenSleep(w) ==
    /\ Alive(w)
    /\ workers[w].pc = "open"
    /\ workers[w].at = "sleep"
    /\ LET r == sgl_next_pass(workers[w].sgl)
       IN  /\ workers' = SetLocals(w, Opened(workers[w], r))
           /\ last_open' = Recorded(IF r.returned
                                    THEN [worker |-> w, log |-> r.log]
                                    ELSE NoCall)
    /\ last_feed' = NoFeed
    /\ UNCHANGED monitor_vars
    /\ UNCHANGED <<main_pc, active, next_active, started_games, is_bot_account,
                   feeds_left, events_left>>

\* chess.engine.SimpleEngine.popen_uci returns: the engine runs, and the
\* thread enters its loop (line 288 of stream_game, line 233 of
\* fallback_poll_game)
EngineStart(w) ==
    /\ Alive(w)
    /\ workers[w].at = "popen"
    /\ workers' = SetLocals(w,
          [workers[w] EXCEPT !.at = IF workers[w].pc = "streaming"
                                    THEN "line" ELSE "fetch"])
    /\ last_open' = Recorded(NoCall)
    /\ last_feed' = NoFeed
    /\ UNCHANGED monitor_vars
    /\ UNCHANGED <<main_pc, active, next_active, started_games, is_bot_account,
                   feeds_left, events_left>>

\* popen_uci raises (the engine cannot be started): in stream_game the raise
\* is caught at line 337 and followed by lines 340-341; in
\* fallback_poll_game nothing catches it and the thread ends
EngineStartError(w) ==
    /\ Alive(w)
    /\ workers[w].at = "popen"
    /\ workers' = SetLocals(w,
          IF workers[w].pc = "streaming" THEN AfterStream(workers[w])
          ELSE [workers[w] EXCEPT !.pc = "dead", !.at = ""])
    /\ last_open' = Recorded(NoCall)
    /\ last_feed' = NoFeed
    /\ UNCHANGED monitor_vars
    /\ UNCHANGED <<main_pc, active, next_active, started_games, is_bot_account,
                   feeds_left, events_left>>

\* a variant of names_missing that lets every update through
names_missing_never(white, black) == FALSE

\* stream_game, line 326: not white or not black
names_missing(white, black) == falsy(white) \/ falsy(black)

\* a variant of stream_line that resets the board before it looks at the
\* line
stream_line_reset(wk, line) ==
    LET r == replay(line.moves)
    IN  CASE line.kind = "skip" -> [wk EXCEPT !.board = <<>>]
          [] line.kind = "gameFull" /\ line.state = "notdict" ->
               AfterStream([wk EXCEPT !.board = <<>>])
          [] r.raised ->
               AfterStream([wk EXCEPT !.board = r.board])
          [] line.kind = "gameFull" ->
               Accept(wk, r.board, player_name(line.players[1]),
                      player_name(line.players[2]))
          [] OTHER ->
               IF names_missing(wk.white, wk.black)
               THEN Replayed(wk, r.board)
               ELSE Accept(wk, r.board, wk.white, wk.black)

\* the body of the stream loop for one line (lines 291-335), up to the next
\* line or to the call of engine.analyse; a raise inside the loop is caught
\* at line 337 and followed by lines 340-341
stream_line(wk, line) ==
    LET r == replay(line.moves)
    IN  CASE line.kind = "skip" -> wk
          [] line.kind = "gameFull" /\ line.state = "notdict" ->
               AfterStream([wk EXCEPT !.board = <<>>])
          [] r.raised ->
               AfterStream([wk EXCEPT !.board = r.board])
          [] line.kind = "gameFull" ->
               Accept(wk, r.board, player_name(line.players[1]),
                      player_name(line.players[2]))
          [] OTHER ->
               IF names_missing(wk.white, wk.black)
               THEN Replayed(wk, r.board)
               ELSE Accept(wk, r.board, wk.white, wk.black)

\* stream_game: one line of the stream is read and handled
StreamLine(w) ==
    /\ Alive(w)
    /\ workers[w].pc = "streaming"
    /\ workers[w].at = "line"
    /\ feeds_left > 0
    /\ feeds_left' = feeds_left - 1
    /\ \E line \in FeedLines :
         /\ workers' = SetLocals(w, stream_line(workers[w], line))
         /\ last_feed' = StreamFeed(w, line)
    /\ last_open' = Recorded(NoCall)
    /\ UNCHANGED monitor_vars
    /\ UNCHANGED <<main_pc, active, next_active, started_games, is_bot_account,
                   events_left>>

\* stream_game: the stream ends, by exhaustion of the iterator or by a raise
\* of the iteration
StreamEnd(w) ==
    /\ Alive(w)
    /\ workers[w].pc = "streaming"
    /\ workers[w].at = "line"
    /\ workers' = SetLocals(w, AfterStream(workers[w]))
    /\ last_open' = Recorded(NoCall)
    /\ UNCHANGED monitor_vars
    /\ last_feed' = NoFeed
    /\ UNCHANGED <<main_pc, active, next_active, started_games, is_bot_account,
                   feeds_left, events_left>>

\* fallback_poll_game: fetch_game_export raises (lines 237-240)
PollError(w) ==
    /\ Alive(w)
    /\ workers[w].pc = "polling"
    /\ workers[w].at = "fetch"
    /\ feeds_left > 0
    /\ feeds_left' = feeds_left - 1
    /\ last_open' = Recorded(NoCall)
    /\ UNCHANGED monitor_vars
    /\ last_feed' = FetchError(w)
    /\ UNCHANGED <<main_pc, active, next_active, started_games, is_bot_account,
                   workers, events_left>>

\* fallback_poll_game, lines 255-260: the status test that ends the loop,
\* or the sleep before the next fetch
poll_status(wk, status) ==
    IF ends_polling(status)
    THEN [wk EXCEPT !.pc = "done", !.at = "", !.status = ""]
    ELSE [wk EXCEPT !.at = "fetch", !.status = ""]

\* the body of the polling loop for one fetched snapshot (lines 242-260), up
\* to the next fetch, the end of the loop or the call of engine.analyse; a
\* raise of push_uci is not caught and ends the thread
poll_snapshot(wk, payload) ==
    LET names == extract_names_from_export(payload)
        r     == replay(payload.moves)
    IN  IF r.raised
        THEN [wk EXCEPT !.pc = "dead", !.at = "", !.board = r.board,
                        !.white = names[1], !.black = names[2]]
        ELSE LET nw == Accept(wk, r.board, names[1], names[2])
             IN  IF nw.at = "analyse"
                 THEN [nw EXCEPT !.status = payload.status]
                 ELSE poll_status(nw, payload.status)

\* fallback_poll_game: one snapshot is fetched and handled
PollSnapshot(w) ==
    /\ Alive(w)
    /\ workers[w].pc = "polling"
    /\ workers[w].at = "fetch"
    /\ feeds_left > 0
    /\ feeds_left' = feeds_left - 1
    /\ \E payload \in FeedExports :
         /\ workers' = SetLocals(w, poll_snapshot(workers[w], payload))
         /\ last_feed' = PollFeed(w, payload)
    /\ last_open' = Recorded(NoCall)
    /\ UNCHANGED monitor_vars
    /\ UNCHANGED <<main_pc, active, next_active, started_games, is_bot_account,
                   events_left>>

\* engine.analyse returns (line 185): analyse_and_print_position prints and
\* returns, and the loop of the thread goes on, in stream_game with the next
\* line and in fallback_poll_game with the status test
EngineAnswer(w) ==
    /\ Alive(w)
    /\ workers[w].at = "analyse"
    /\ \E info \in FeedInfos :
         /\ workers' = SetLocals(w,
               LET wk == Analysed(workers[w], info)
               IN  IF wk.pc = "streaming" THEN [wk EXCEPT !.at = "line"]
                   ELSE poll_status(wk, wk.status))
         /\ last_feed' = EngineFeed(w, info)
    /\ last_open' = Recorded(NoCall)
    /\ UNCHANGED monitor_vars
    /\ UNCHANGED <<main_pc, active, next_active, started_games, is_bot_account,
                   feeds_left, events_left>>

\* engine.analyse raises (the engine process has died): in stream_game the
\* raise is caught at line 337 and followed by lines 340-341; in
\* fallback_poll_game nothing catches it and the thread ends
EngineError(w) ==
    /\ Alive(w)
    /\ workers[w].at = "analyse"
    /\ workers' = SetLocals(w,
          IF workers[w].pc = "streaming" THEN AfterStream(workers[w])
          ELSE [workers[w] EXCEPT !.pc = "dead", !.at = "", !.status = ""])
    /\ last_open' = Recorded(NoCall)
    /\ last_feed' = NoFeed
    /\ UNCHANGED monitor_vars
    /\ UNCHANGED <<main_pc, active, next_active, started_games, is_bot_account,
                   feeds_left, events_left>>

----------------------------------------------------------------------------
(* main *)

\* threading.Thread(target=stream_game, args=(game_id, ...)).start()
Spawn(game_id) == workers' = Append(workers, NewWorker(game_id))

\* one iteration of the startup loop over get_active_game_ids (lines 377-384)
StartupSpawn ==
    /\ main_pc = "startup"
    /\ next_active <= Len(active)
    /\ started_games' = started_games \cup {active[next_active]}
    /\ Spawn(active[next_active])
    /\ next_active' = next_active + 1
    /\ last_open' = Recorded(NoCall)
    /\ UNCHANGED monitor_vars
    /\ last_feed' = NoFeed
    /\ UNCHANGED <<main_pc, active, is_bot_account, feeds_left, events_left>>

\* the startup loop is over; main enters the event loop (line 386)
StartupDone ==
    /\ main_pc = "startup"
    /\ next_active > Len(active)
    /\ main_pc' = "events"
    /\ last_open' = Recorded(NoCall)
    /\ UNCHANGED monitor_vars
    /\ last_feed' = NoFeed
    /\ UNCHANGED <<active, next_active, started_games, is_bot_account, workers,
                   feeds_left, events_left>>

\* one gameStart event of the global stream (lines 387-398)
GameStart(game_id) ==
    /\ main_pc = "events"
    /\ events_left > 0
    /\ events_left' = events_left - 1
    /\ IF is_unseen(game_id, started_games)
       THEN /\ started_games' = started_games \cup {game_id}
            /\ Spawn(game_id)
       ELSE UNCHANGED <<started_games, workers>>
    /\ last_open' = Recorded(NoCall)
    /\ UNCHANGED monitor_vars
    /\ last_feed' = NoFeed
    /\ UNCHANGED <<main_pc, active, next_active, is_bot_account, feeds_left>>

\* a gameStart event without a game id: event["game"]["id"] raises KeyError
\* at line 388, which nothing catches, and the process ends with main;
\* nothing is delivered to it any more
GameStartNoId ==
    /\ main_pc = "events"
    /\ events_left > 0
    /\ events_left' = 0
    /\ main_pc' = "crashed"
    /\ feeds_left' = 0
    /\ last_open' = Recorded(NoCall)
    /\ UNCHANGED monitor_vars
    /\ last_feed' = NoFeed
    /\ UNCHANGED <<active, next_active, started_games, is_bot_account, workers>>

\* an event of another type (line 387)
OtherEvent ==
    /\ main_pc = "events"
    /\ events_left > 0
    /\ events_left' = events_left - 1
    /\ last_open' = Recorded(NoCall)
    /\ UNCHANGED monitor_vars
    /\ last_feed' = NoFeed
    /\ UNCHANGED <<main_pc, active, next_active, started_games, is_bot_account,
                   workers, feeds_left>>

\* the global event stream ends or raises: main returns and the process,
\* whose threads are daemons, exits; nothing is delivered to it any more
EventStreamEnd ==
    /\ main_pc = "events"
    /\ main_pc' = "exited"
    /\ feeds_left' = 0
    /\ events_left' = 0
    /\ last_open' = Recorded(NoCall)
    /\ UNCHANGED monitor_vars
    /\ last_feed' = NoFeed
    /\ UNCHANGED <<active, next_active, started_games, is_bot_account, workers>>

----------------------------------------------------------------------------
(* The polling monitor, scripts/detect_live_game_best_move.py *)

\* the keys of seen_positions: a game id, or the default of line 164
Unknown == "unknown"
Keys    == {"g1", Unknown}

\* board.fen() of the board whose move_stack is stack: the placement the
\* moves lead to whatever their order, the side to move and the counters
\* (every move of the alphabet but the last is a pawn move)
fen_of(stack) ==
    [placement |-> {stack[i] : i \in 1..Len(stack)},
     turn      |-> turn(stack),
     plies     |-> Len(stack)]

\* seen_positions.get(game_id) of a key never stored, get_fen(game) = None,
\* and a game without fen / lastFen
NoFen == [placement |-> {}, turn |-> "none", plies |-> -1]

\* a fen string chess.Board rejects
BadFen == [placement |-> {}, turn |-> "bad", plies |-> -1]

\* chess.Board(fen) does not raise ValueError
fen_is_valid(fen) == fen.plies >= 0

\* chess.Board(fen).is_game_over(): the mate that ends GameLine
fen_game_over(fen) == fen.placement = fen_of(GameLine).placement

\* the games a poll reports: id is "" when the game has neither id nor
\* gameId; fen is the fen or lastFen field; has_moves tells that moves is a
\* string, of which moves lists the tokens; initialFen is absent
GamesWithFen ==
    [id : {"g1", ""}, fen : {BadFen, fen_of(<<"f2f3">>)},
     has_moves : {FALSE}, moves : {<<>>}]
GamesWithMoves ==
    [id : {"g1", ""}, fen : {NoFen}, has_moves : {TRUE},
     moves : {<<"f2f3">>, GameLine, <<"e7e5">>}]
GamesBare ==
    [id : {"g1", ""}, fen : {NoFen}, has_moves : {FALSE}, moves : {<<>>}]

\* what fetch_ongoing_games / fallback_tv_match may return
GameLists == SeqsUpTo(GamesWithFen \cup GamesWithMoves \cup GamesBare, MaxGames)
TvLists   == SeqsUpTo(GamesWithFen \cup GamesBare, MaxGames)

\* get_fen(game), lines 80-105
get_fen(game) ==
    IF game.fen # NoFen THEN game.fen
    ELSE IF ~game.has_moves THEN fen_of(<<>>)
    ELSE LET r == replay(game.moves)
         IN  IF r.raised THEN NoFen ELSE fen_of(r.board)

\* game.get("id") or game.get("gameId") or "unknown"
game_key(game) == IF game.id = "" THEN Unknown ELSE game.id

\* last_game of a step that visited no entry
NoGame == [key |-> "", fen |-> NoFen, result |-> "none"]

\* a variant of is_seen that never finds the position
is_seen_never(seen, key, fen) == FALSE

\* main, line 165: seen_positions.get(game_id) == fen
is_seen(seen, key, fen) == seen[key] = fen

\* main, line 149: [game for game in games if get_fen(game)]
analyzable(games) == SelectSeq(games, LAMBDA game : get_fen(game) # NoFen)

\* the body of the for-loop for one game (lines 160-210): the dict after it
\* and what it did: "nofen" and "same" (continue at 162, 166), "badfen"
\* (continue at 176), "gameover" (the end message), "analysed" (the call of
\* engine.analyse and the two moves printed)
visit(game, seen) ==
    LET fen == get_fen(game)
        key == game_key(game)
        now == [seen EXCEPT ![key] = fen]
    IN  IF fen = NoFen THEN [seen |-> seen, result |-> "nofen"]
        ELSE IF is_seen(seen, key, fen) THEN [seen |-> seen, result |-> "same"]
        ELSE IF ~fen_is_valid(fen) THEN [seen |-> now, result |-> "badfen"]
        ELSE IF fen_game_over(fen) THEN [seen |-> now, result |-> "gameover"]
        ELSE [seen |-> now, result |-> "analysed"]

\* main() at line 146: nothing seen, about to fetch
MonitorStart ==
    /\ seen_positions = [k \in Keys |-> NoFen]
    /\ queue = <<>>
    /\ polls_left = MaxPolls
    /\ polled = [k \in Keys |-> NoFen]
    /\ last_game = NoGame

\* lines 148-149 and 159: the user's games hold an analyzable one
PollGames ==
    /\ queue = <<>>
    /\ polls_left > 0
    /\ polls_left' = polls_left - 1
    /\ \E games \in GameLists :
         /\ analyzable(games) # <<>>
         /\ queue' = analyzable(games)
    /\ last_game' = NoGame
    /\ UNCHANGED <<seen_positions, polled>>
    /\ UNCHANGED stream_vars

\* lines 148-157: none of the user's games is analyzable and the list of
\* fallback_tv_match is taken as it is; when it is empty main sleeps and
\* fetches again
PollTv ==
    /\ queue = <<>>
    /\ polls_left > 0
    /\ polls_left' = polls_left - 1
    /\ \E games \in GameLists : analyzable(games) = <<>>
    /\ \E tv \in TvLists : queue' = tv
    /\ last_game' = NoGame
    /\ UNCHANGED <<seen_positions, polled>>
    /\ UNCHANGED stream_vars

\* one iteration of the for-loop (lines 159-210); after the last one main
\* sleeps and fetches again
VisitGame ==
    /\ queue # <<>>
    /\ LET game == Head(queue)
           fen  == get_fen(game)
           key  == game_key(game)
       IN  /\ seen_positions' = visit(game, seen_positions).seen
           /\ polled' = IF fen = NoFen THEN polled
                         ELSE [polled EXCEPT ![key] = fen]
           /\ last_game' = [key |-> key, fen |-> fen,
                             result |-> visit(game, seen_positions).result]
    /\ queue' = Tail(queue)
    /\ UNCHANGED polls_left
    /\ UNCHANGED stream_vars

----------------------------------------------------------------------------
(* Specifications *)

Init ==
    /\ main_pc = "startup"
    /\ active \in ActiveLists
    /\ next_active = 1
    /\ started_games = {}
    /\ is_bot_account \in BOOLEAN
    /\ workers = <<>>
    /\ feeds_left = MaxShared
    /\ events_left = MaxEvents
    /\ last_open = Off
    /\ last_feed = NoFeed
    /\ MonitorStart

Next ==
    \/ StartupSpawn
    \/ StartupDone
    \/ \E game_id \in GameIds : GameStart(game_id)
    \/ GameStartNoId
    \/ OtherEvent
    \/ EventStreamEnd
    \/ \E w \in 1..Len(workers) : OpenRequest(w)
    \/ \E w \in 1..Len(workers) : OpenSleep(w)
    \/ \E w \in 1..Len(workers) : EngineStart(w)
    \/ \E w \in 1..Len(workers) : EngineStartError(w)
    \/ \E w \in 1..Len(workers) : EngineAnswer(w)
    \/ \E w \in 1..Len(workers) : EngineError(w)
    \/ \E w \in 1..Len(workers) : StreamLine(w)
    \/ \E w \in 1..Len(workers) : StreamEnd(w)
    \/ \E w \in 1..Len(workers) : PollError(w)
    \/ \E w \in 1..Len(workers) : PollSnapshot(w)

\* the whole program: dispatch and the workers it starts
Spec == Init /\ [][Next]_vars

\* one session: the startup list holds one game, the event stream stays
\* silent, and the stream_game_lines calls are recorded
SessionInit ==
    /\ main_pc = "startup"
    /\ active = <<"g1">>
    /\ next_active = 1
    /\ started_games = {}
    /\ is_bot_account \in BOOLEAN
    /\ workers = <<>>
    /\ feeds_left = MaxUpdates
    /\ events_left = 0
    /\ last_open = NoCall
    /\ last_feed = NoFeed
    /\ MonitorStart

SessionNext ==
    \/ StartupSpawn
    \/ StartupDone
    \/ \E w \in 1..Len(workers) : OpenRequest(w)
    \/ \E w \in 1..Len(workers) : OpenSleep(w)
    \/ \E w \in 1..Len(workers) : EngineStart(w)
    \/ \E w \in 1..Len(workers) : EngineStartError(w)
    \/ \E w \in 1..Len(workers) : EngineAnswer(w)
    \/ \E w \in 1..Len(workers) : EngineError(w)
    \/ \E w \in 1..Len(workers) : StreamLine(w)
    \/ \E w \in 1..Len(workers) : StreamEnd(w)
    \/ \E w \in 1..Len(workers) : PollError(w)
    \/ \E w \in 1..Len(workers) : PollSnapshot(w)

SessionSpec == SessionInit /\ [][SessionNext]_vars

\* the polling monitor alone: no dispatch run is under way
MonitorInit ==
    /\ main_pc = "startup"
    /\ active = <<>>
    /\ next_active = 1
    /\ started_games = {}
    /\ is_bot_account = FALSE
    /\ workers = <<>>
    /\ feeds_left = 0
    /\ events_left = 0
    /\ last_open = Off
    /\ last_feed = NoFeed
    /\ MonitorStart

MonitorNext ==
    \/ PollGames
    \/ PollTv
    \/ VisitGame

MonitorSpec == MonitorInit /\ [][MonitorNext]_vars

----------------------------------------------------------------------------
(* Properties *)

Threads == 1..Len(workers)

\* the last call of analyse_and_print_position of thread record wk
LastOut(wk) == wk.out[Len(wk.out)]

\* the step made thread w print the report of an
\* analyse_and_print_position call
Printed(w) == Len(workers'[w].out) > Len(workers[w].out)

\* the step made thread w call engine.analyse, whose answer it now awaits
EngineInvoked(w) == workers[w].at # "analyse" /\ workers'[w].at = "analyse"

\* the step made thread w call analyse_and_print_position, which printed
\* and returned or went on to engine.analyse
Called(w) == workers[w].at # "analyse" /\ (Printed(w) \/ EngineInvoked(w))

\* the step is an update of the feed thread w is reading that replays to the
\* key of the update before it
SameKeyAgain(w) ==
    /\ workers'[w].pc = workers[w].pc
    /\ workers[w].run >= 1
    /\ workers'[w].run = workers[w].run + 1

\* the colour analyse_and_print_position takes the monitored user to play
\* in the game of thread record wk (lines 175-176): white when the white
\* name is the user name, black otherwise
UserIsWhite(wk) == lower(wk.white) = lower(username)
UserIsBlack(wk) == ~UserIsWhite(wk)

\* C1: over the lifetime of a session worker (stream and export polling
\* together) analyse_and_print_position is called at most once per
\* (ply count, side to move) key.
C1_OncePerKey ==
    \A w \in Threads :
        \A i, j \in 1..Len(workers[w].out) :
            i # j => workers[w].out[i].key # workers[w].out[j].key

\* C2: an update of the feed that replays to fewer plies than the position
\* already observed is discarded: board and last_position_key stay where
\* they are and nothing is printed.
C2_NoRegression ==
    [][\A w \in Threads :
         LET old == workers[w]
             new == workers'[w]
         IN  (old.pc = new.pc /\ old.last_position_key # NoKey)
             => \/ Len(new.board) >= old.last_position_key[1]
                   /\ new.last_position_key[1] >= old.last_position_key[1]
                \/ new = old]_vars

\* C3: when every candidate failed on every attempt, the worker of a
\* non-bot account goes on to export polling instead of returning.
C3_PollsAfterOpenFailure ==
    \A w \in Threads :
        (workers[w].failed > 0 /\ ~is_bot_account) => workers[w].polls > 0

\* C4: when the side to move is the monitored user's colour nothing is
\* reported as waiting for the opponent, and when it is the other colour
\* the engine is not called.
C4_TurnCorrect ==
    [][/\ \A w \in Threads :
         Printed(w) =>
           LET new  == workers'[w]
               side == turn(new.board)
               mine == \/ side = "white" /\ UserIsWhite(new)
                       \/ side = "black" /\ UserIsBlack(new)
               his  == \/ side = "black" /\ UserIsWhite(new)
                       \/ side = "white" /\ UserIsBlack(new)
           IN  /\ mine => LastOut(new).print # "waiting"
               /\ his => ~LastOut(new).engine
       /\ \A w \in Threads :
            EngineInvoked(w) =>
              LET new == workers'[w]
              IN  \/ turn(new.board) = "white" /\ UserIsWhite(new)
                  \/ turn(new.board) = "black" /\ UserIsBlack(new)]_vars

\* C4 witness: a worker has analysed a position with the user to move and
\* has reported waiting in one with the opponent to move.
C4_Witness ==
    \E w \in Threads :
        \E i, j \in 1..Len(workers[w].out) :
            /\ workers[w].out[i].print = "yourturn"
            /\ workers[w].out[j].print = "waiting"

\* C5: whenever the accepted position is game over, the report is the
\* game-over report, whichever side is to move.
C5_TerminalIsGameOver ==
    [][\A w \in Threads :
         (Printed(w) /\ is_game_over(workers'[w].board))
            => LastOut(workers'[w]).print = "gameover"]_vars

\* C6: after the game-over report a worker prints nothing more, and the
\* game-over report is made at most once.
C6_NothingAfterGameOver ==
    \A w \in Threads :
        \A i \in 1..Len(workers[w].out) :
            workers[w].out[i].print = "gameover" => i = Len(workers[w].out)

\* C7: no game id ever has two workers started for it.
C7_OneWorkerPerId ==
    \A v, w \in Threads : v # w => workers[v].game_id # workers[w].game_id

\* C8 as stated: the second and later updates of a run of updates with the
\* same key change neither last_position_key nor print anything.
C8_RunIsSilent ==
    [][\A w \in Threads :
         SameKeyAgain(w)
            => /\ workers'[w].last_position_key = workers[w].last_position_key
               /\ workers'[w].out = workers[w].out]_vars

\* C8 amended: a call of analyse_and_print_position moves last_position_key
\* to the key of the update and prints at most once, at once or when the
\* engine has answered; and once last_position_key is the key of the run (an
\* update of the run has passed the key test) a further update of the run
\* changes neither last_position_key nor makes a call; so a run triggers at
\* most one call.
C8_RunTriggersOnce ==
    [][\A w \in Threads :
         LET old == workers[w]
             new == workers'[w]
         IN  /\ Called(w)
                => /\ new.last_position_key = position_key(new.board)
                   /\ new.last_position_key # old.last_position_key
             /\ Printed(w)
                => /\ Len(new.out) = Len(old.out) + 1
                   /\ LastOut(new).key = new.last_position_key
                   /\ \/ Called(w)
                      \/ /\ old.at = "analyse"
                         /\ new.last_position_key = old.last_position_key
                         /\ new.board = old.board
             /\ (SameKeyAgain(w) /\ old.last_position_key = position_key(old.board))
                => /\ new.last_position_key = old.last_position_key
                   /\ new.out = old.out
                   /\ ~Called(w)]_vars

\* C8 witness: a feed has delivered the same key twice in a row to a worker
\* that printed once for it.
C8_Witness ==
    \E w \in Threads :
        /\ workers[w].run = 2
        /\ Len(workers[w].out) = 1
        /\ workers[w].last_position_key = position_key(workers[w].board)

\* C9: stream_game_lines requests the candidates in the order bot, board for
\* a bot account and board, bot otherwise, on every pass; the second
\* candidate is requested only right after the first has failed, and a
\* request answered with HTTP 200 is the last one and its response is the
\* one the worker reads.
C9_CandidateOrder ==
    last_open.worker > 0 =>
      LET log    == last_open.log
          first  == IF is_bot_account THEN "bot" ELSE "board"
          second == IF is_bot_account THEN "board" ELSE "bot"
      IN  /\ log # <<>>
          /\ log[1].op = "get" /\ log[1].endpoint = first
          /\ \A k \in 1..Len(log) :
               /\ log[k].op = "get" => log[k].endpoint \in {first, second}
               /\ (log[k].op = "sleep" /\ k < Len(log))
                    => log[k + 1].op = "get" /\ log[k + 1].endpoint = first
               /\ (log[k].op = "get" /\ log[k].endpoint = first /\ k > 1)
                    => log[k - 1].op = "sleep"
               /\ (log[k].op = "get" /\ log[k].endpoint = second)
                    => /\ k > 1
                       /\ log[k - 1].op = "get"
                       /\ log[k - 1].endpoint = first
                       /\ log[k - 1].outcome # "200"
               /\ log[k].outcome = "200"
                    => /\ k = Len(log)
                       /\ workers[last_open.worker].response = log[k].endpoint

\* C9 witness: a call whose first pass failed on both candidates and whose
\* second pass was answered by the second candidate.
C9_Witness ==
    /\ last_open.worker > 0
    /\ Len(last_open.log) = 5
    /\ last_open.log[3].op = "sleep"
    /\ last_open.log[5].outcome = "200"
    /\ workers[last_open.worker].pc = "streaming"

\* C10 as stated: a worker that leaves the stream goes on to export
\* polling, and a polling worker never starts another polling loop.
C10_StreamEndPolls ==
    [][\A w \in Threads :
         /\ (workers[w].pc = "streaming" /\ workers'[w].pc # "streaming")
              => workers'[w].pc = "polling" /\ workers'[w].polls = 1
         /\ workers[w].pc = "polling" => workers'[w].polls = workers[w].polls]_vars

\* C10 amended: a worker of a non-bot account that leaves the stream goes on
\* to export polling, a worker of a bot account returns, and a polling
\* worker never starts another polling loop.
C10_StreamEndPollsUnlessBot ==
    [][\A w \in Threads :
         /\ (workers[w].pc = "streaming" /\ workers'[w].pc # "streaming")
              => IF is_bot_account
                 THEN workers'[w].pc = "done" /\ workers'[w].polls = 0
                 ELSE workers'[w].pc = "polling" /\ workers'[w].polls = 1
         /\ workers[w].pc = "polling" => workers'[w].polls = workers[w].polls]_vars

\* C10 witness: a worker of a non-bot account polls after its stream and
\* has processed a snapshot there.
C10_Witness ==
    \E w \in Threads :
        /\ ~is_bot_account
        /\ workers[w].pc = "polling"
        /\ workers[w].polls = 1
        /\ workers[w].run >= 1

\* C11: once the workers started for a game id have all returned, the id is
\* no longer in started_games, so that a later gameStart event carrying it
\* starts a new worker.
C11_DoneReleasesId ==
    \A w \in Threads :
        (\A v \in Threads :
            workers[v].game_id = workers[w].game_id => workers[v].pc = "done")
        => workers[w].game_id \notin started_games

\* the requests of a call log
Gets(log) == {k \in 1..Len(log) : log[k].op = "get"}

\* C12: a call of stream_game_lines is made of at most 12 passes of two
\* requests each, one per candidate; exactly one sleep separates two
\* consecutive passes and none follows the last pass; the call ends with a
\* request, and it returns the failure result exactly when it made 24
\* requests and none was answered with HTTP 200.  While the call is under
\* way the thread is in one of the 12 passes, has made one request per
\* candidate in each pass before it and one per candidate before the next
\* one in this pass, none of them answered with HTTP 200, and has slept once
\* after each pass before this one; while it sleeps it is still in the pass
\* whose two requests failed, which is not the last one.
C12_BoundedRetry ==
    /\ last_open.worker > 0 =>
         LET log == last_open.log
             wk  == workers[last_open.worker]
         IN  /\ Len(log) \in 1..(3 * attempts - 1)
             /\ Cardinality(Gets(log)) <= 2 * attempts
             /\ \A k \in 1..Len(log) : log[k].op = "sleep" <=> k % 3 = 0
             /\ \A k \in 1..Len(log) :
                   k % 3 = 2 => /\ log[k].endpoint # log[k - 1].endpoint
                                /\ log[k - 1].outcome # "200"
             /\ log[Len(log)].op = "get"
             /\ (wk.response = None)
                   <=> /\ Cardinality(Gets(log)) = 2 * attempts
                       /\ \A k \in Gets(log) : log[k].outcome # "200"
             /\ (wk.response = None) <=> (wk.pc = "done" /\ wk.failed = 1)
    /\ \A w \in Threads :
         workers[w].pc = "open" =>
           LET sgl   == workers[w].sgl
               made  == IF workers[w].at = "sleep" THEN 2 ELSE sgl.candidate - 1
               slept == IF workers[w].at = "sleep" THEN sgl.attempt
                        ELSE sgl.attempt - 1
           IN  /\ workers[w].at \in {"get", "sleep"}
               /\ sgl.attempt \in 1..attempts
               /\ sgl.candidate \in 1..2
               /\ workers[w].at = "sleep"
                     => sgl.candidate = 2 /\ sgl.attempt < attempts
               /\ Len(sgl.last_failures) = made
               /\ Cardinality(Gets(sgl.log)) = 2 * (sgl.attempt - 1) + made
               /\ Len(sgl.log) = 2 * (sgl.attempt - 1) + made + slept
               /\ \A k \in 1..Len(sgl.log) :
                     /\ sgl.log[k].op = "sleep" <=> k % 3 = 0
                     /\ sgl.log[k].outcome # "200"

\* C12 witness: a call that failed on every candidate on every pass, with
\* its eleven sleeps.
C12_Witness ==
    /\ last_open.worker > 0
    /\ Len(last_open.log) = 3 * attempts - 1
    /\ Cardinality(Gets(last_open.log)) = 2 * attempts
    /\ workers[last_open.worker].failed = 1

\* the failed requests of a call log, in the order they were made
FailedGets(log) == SelectSeq(log, LAMBDA e : e.op = "get" /\ e.outcome # "200")

\* C13: when stream_game_lines returns the failure result, the list the
\* worker reports holds one cause (endpoint name and status or error) for
\* every failed request of the call, and the worker reports it once.
C13_AllCausesReported ==
    (last_open.worker > 0 /\ workers[last_open.worker].failed > 0) =>
      LET failed_gets == FailedGets(last_open.log)
          wk          == workers[last_open.worker]
      IN  /\ wk.failed = 1
          /\ wk.failure = [k \in 1..Len(failed_gets) |->
                             [endpoint |-> failed_gets[k].endpoint,
                              cause    |-> failed_gets[k].outcome]]

\* the step made thread w read an item of its feed
Fed(w) == last_feed'.worker = w

\* C14: an update whose move list holds a move the rules engine rejects
\* leaves the worker where it was (streaming or polling), with the update
\* counted as replayed.
C14_IllegalMoveTruncates ==
    [][\A w \in Threads :
         (Fed(w) /\ last_feed'.illegal)
            => /\ workers'[w].pc = workers[w].pc
               /\ workers'[w].run >= 1]_vars

\* the status of an export payload is a string that is not in progress
FinalStatus(status) ==
    status # NoStatus /\ lower(status) \notin {"started", "created"}

\* C15: a polling worker leaves its loop exactly when it is through with a
\* fetched snapshot whose status is final, at once or when the engine has
\* answered; every fetched snapshot, the final one included, is replayed and
\* makes at most one call of analyse_and_print_position; a snapshot whose
\* status is in progress and a failed fetch leave it polling.
C15_PollingStopsOnFinalStatus ==
    [][\A w \in Threads :
         (workers[w].pc = "polling" /\ workers[w].at # "popen") =>
            /\ (workers'[w].pc # "polling")
                  <=> /\ Fed(w)
                      /\ workers'[w].at # "analyse"
                      /\ \/ /\ last_feed'.kind = "export"
                            /\ FinalStatus(last_feed'.status)
                         \/ /\ last_feed'.kind = "engine"
                            /\ FinalStatus(workers[w].status)
            /\ (Fed(w) /\ last_feed'.kind = "export")
                  => /\ workers'[w].run >= 1
                     /\ Len(workers'[w].out) <= Len(workers[w].out) + 1
                     /\ EngineInvoked(w) => ~Printed(w)
            /\ (Fed(w) /\ last_feed'.kind = "engine")
                  => Len(workers'[w].out) = Len(workers[w].out) + 1
            /\ (Fed(w) /\ last_feed'.kind = "fetcherror")
                  => workers'[w] = workers[w]]_vars

\* the step is a failure or the end of thread w: a failed request or a
\* failed open, the stream left (closed, a raise of the iteration, of the
\* handling of a line or of the engine), an update with a rejected move or a
\* state that is not an object, a failed fetch, or the thread returning or
\* dying
Failure(w) ==
    \/ /\ workers[w].pc = "open"
       /\ Len(workers'[w].sgl.last_failures) > Len(workers[w].sgl.last_failures)
    \/ workers'[w].failed > workers[w].failed
    \/ workers[w].pc = "streaming" /\ workers'[w].pc # "streaming"
    \/ /\ Fed(w)
       /\ \/ last_feed'.illegal
          \/ last_feed'.shape = "notdict"
          \/ last_feed'.kind = "fetcherror"
    \/ workers[w].pc \notin {"done", "dead"} /\ workers'[w].pc \in {"done", "dead"}

\* C16: a failure of one worker leaves main, the registry, the number of
\* threads and the record of every other thread as they were.
C16_FailuresStayLocal ==
    [][\A w \in Threads :
         Failure(w)
            => /\ main_pc' = main_pc
               /\ started_games' = started_games
               /\ next_active' = next_active
               /\ Len(workers') = Len(workers)
               /\ \A v \in Threads \ {w} : workers'[v] = workers[v]]_vars

\* C16 witness: a thread has just died of a rejected move while another
\* thread sleeps between two passes of its stream_game_lines call, holding
\* the two failures of the pass, with main in the event loop.
C16_Witness ==
    \E v, w \in Threads :
        /\ v # w
        /\ last_feed.worker = v
        /\ last_feed.illegal
        /\ workers[v].pc = "dead"
        /\ workers[w].pc = "open"
        /\ workers[w].at = "sleep"
        /\ Len(workers[w].sgl.last_failures) = 2
        /\ main_pc = "events"

\* C17: a failure or the closure of the global event stream does not end
\* the event loop of main: main reconnects and stays ready to dispatch, and
\* the threads keep running.
C17_EventStreamReconnects ==
    [][main_pc = "events" => main_pc' # "exited"]_vars

\* C18: a line of the stream that is blank, not JSON, not an object,
\* without a type or of an unknown type changes nothing of the worker that
\* reads it (board, names, last_position_key, calls made), and the worker
\* goes on reading the stream.
C18_MalformedLineSkipped ==
    [][\A w \in Threads :
         (Fed(w) /\ last_feed'.kind = "skip")
            => /\ workers'[w] = workers[w]
               /\ workers'[w].pc = "streaming"]_vars

\* C18 witness: a worker that holds a position and the names has just read
\* such a line.
C18_Witness ==
    \E w \in Threads :
        /\ last_feed.worker = w
        /\ last_feed.kind = "skip"
        /\ workers[w].pc = "streaming"
        /\ workers[w].board # <<>>
        /\ workers[w].last_position_key = position_key(workers[w].board)
        /\ Len(workers[w].out) = 1

\* the item of the feed the step read lacks a field: a gameFull line whose
\* state is missing or not an object, an export payload without moves or
\* without status
LacksField ==
    \/ last_feed'.kind = "gameFull" /\ last_feed'.shape \in {"missing", "notdict"}
    \/ last_feed'.kind = "export"
         /\ (last_feed'.shape = "nomoves" \/ last_feed'.status = NoStatus)

\* C19: no event the global stream delivers, a gameStart without a game id
\* included, makes main raise; and an item of a game feed
\* that lacks a field leaves the worker that reads it where it was, unless
\* it is an export payload with a final status, which ends the polling.
C19_MissingFieldsDegrade ==
    [][/\ main_pc = "events" => main_pc' # "crashed"
       /\ \A w \in Threads :
            (Fed(w) /\ LacksField)
               => \/ workers'[w].pc = workers[w].pc
                  \/ /\ last_feed'.kind = "export"
                     /\ FinalStatus(last_feed'.status)
                     /\ workers'[w].pc = "done"]_vars

\* C20: the engine is called only in a position that is not game over with
\* the monitored user to move; when it answers without a continuation the
\* worker reports that no engine move is available, and it stays in its
\* loop (an export payload with a final status still ends the polling).
C20_NoCandidateReported ==
    [][\A w \in Threads :
         LET old  == workers[w]
             new  == workers'[w]
             side == turn(old.board)
             mine == \/ side = "white" /\ UserIsWhite(old)
                     \/ side = "black" /\ UserIsBlack(old)
         IN  /\ old.at = "analyse" => mine /\ ~is_game_over(old.board)
             /\ ( /\ Fed(w)
                  /\ last_feed'.kind = "engine"
                  /\ last_feed'.zero )
                => /\ Printed(w)
                   /\ LastOut(new).print = "nomove"
                   /\ LastOut(new).engine
                   /\ \/ /\ new.pc = old.pc
                         /\ new.at = IF old.pc = "streaming" THEN "line"
                                     ELSE "fetch"
                      \/ /\ old.pc = "polling"
                         /\ FinalStatus(old.status)
                         /\ new.pc = "done"]_vars

\* C20 witness: a streaming worker has just reported that no engine move is
\* available, on an answer without a continuation.
C20_Witness ==
    \E w \in Threads :
        /\ last_feed.worker = w
        /\ last_feed.zero
        /\ workers[w].pc = "streaming"
        /\ workers[w].out # <<>>
        /\ LastOut(workers[w]).print = "nomove"

\* the name locals of thread record wk are not both set
names_unset(wk) == wk.white = None \/ wk.black = None

\* C21: while a streaming worker has not read a gameFull line (its name
\* locals are unset), it has made no call of analyse_and_print_position and
\* last_position_key is unset; a gameState line it reads then changes the
\* board only; and a call made while streaming is made with both names set.
C21_NothingBeforeNames ==
    [][\A w \in Threads :
         LET old == workers[w]
             new == workers'[w]
         IN  /\ (old.pc = "streaming" /\ names_unset(old))
                  => /\ old.out = <<>>
                     /\ old.last_position_key = NoKey
                     /\ old.at # "analyse"
             /\ ( /\ old.pc = "streaming"
                  /\ names_unset(old)
                  /\ Fed(w)
                  /\ last_feed'.kind = "gameState"
                  /\ ~last_feed'.illegal )
                  => /\ new.pc = "streaming"
                     /\ new.at = "line"
                     /\ names_unset(new)
                     /\ new.last_position_key = NoKey
                     /\ new.out = <<>>
             /\ (old.pc = "streaming" /\ (Printed(w) \/ EngineInvoked(w)))
                  => /\ last_feed'.kind \in {"gameFull", "gameState", "engine"}
                     /\ ~names_unset(new)
                     /\ (names_unset(old) => last_feed'.kind = "gameFull")]_vars

\* C21 witness: a streaming worker without names has just replayed a
\* gameState line to a position past the start.
C21_Witness ==
    \E w \in Threads :
        /\ last_feed.worker = w
        /\ last_feed.kind = "gameState"
        /\ workers[w].pc = "streaming"
        /\ names_unset(workers[w])
        /\ workers[w].board # <<>>
        /\ workers[w].out = <<>>

\* C22: the monitor calls the engine for an entry only when its position
\* differs from the one recorded in seen_positions for its game id, which is
\* the position of the entry visited last for that id; so an entry that
\* repeats that position is passed over and leaves the dict as it is, and
\* the engine is never called on a position that is game over.
C22_AnalysedOnChangeOnly ==
    [][last_game'.result # "none" =>
         LET key == last_game'.key
             fen == last_game'.fen
         IN  /\ last_game'.result = "analysed"
                  => /\ fen # seen_positions[key]
                     /\ fen # polled[key]
                     /\ seen_positions'[key] = fen
                     /\ fen_is_valid(fen)
                     /\ ~fen_game_over(fen)
             /\ (fen # NoFen /\ fen = polled[key])
                  => /\ last_game'.result = "same"
                     /\ seen_positions' = seen_positions
             /\ fen_game_over(fen) => last_game'.result # "analysed"]_vars

\* C22 witness: in a later poll the monitor has just passed over an entry
\* whose position, not game over, is the one it recorded before.
C22_Witness ==
    /\ last_game.result = "same"
    /\ fen_is_valid(last_game.fen)
    /\ ~fen_game_over(last_game.fen)
    /\ seen_positions[last_game.key] = last_game.fen
    /\ polls_left <= MaxPolls - 2

====
